---- MODULE Spec2Model ----
(***************************************************************************)
(* wifi-cli (src/src/main.rs): a terminal front-end over `nmcli`.  main()   *)
(* scans the networks, lets the user move a selector over the listing,      *)
(* reads a password and calls `nmcli device wifi connect`.                  *)
(*                                                                          *)
(* A state of the model is a point where main() is blocked in               *)
(* event_iter.next() (or is about to run the state-2 iteration, or has      *)
(* ended).  Each action is the code that runs from the arrival of an input  *)
(* event to the next such point.                                            *)
(*                                                                          *)
(* Text is a sequence of strings: one byte each where the code looks inside  *)
(* the text (listing lines, ssid, password), a whole literal elsewhere.  An  *)
(* ASCII byte is written as its character, any other byte as its two hex     *)
(* digits ("C3", "A9" are the two bytes of U+00E9).                           *)
(* The output of `nmcli` and the screen are held as sequences of lines, i.e. *)
(* as what str::lines() yields.  When main returns or unwinds, its locals    *)
(* are dropped: dropping `stdout`, a RawTerminal, sets the terminal back to *)
(* the mode into_raw_mode found, or fails and leaves it as main left it;    *)
(* the history variables stay.                                              *)
(***************************************************************************)
EXTENDS Integers, Sequences, FiniteSets, TLC

VARIABLES
    build,          \* "debug" | "release": decides what u8 overflow does
    status,         \* "start" | "running" | "exited" (Ok) | "error" (Err) | "panic"
    state,          \* main.rs:48  the phase: 0 browsing, 1 password, 2 connect
    selector_pos,   \* main.rs:45  u8
    wifi_list,      \* main.rs:46  last listing kept by main
    pwd,            \* main.rs:49
    ssid,           \* main.rs:50
                    \* (these four are dropped when main ends: see Ended)
    raw,            \* terminal: TRUE iff raw mode is active
    end_mode,       \* "raw" | "cooked": the mode main's last call left, once main has
                    \* ended and before `stdout` is dropped ("none" while main runs)
    screen,         \* terminal: what the last completed clear_and_write shows
    evt,            \* the result of the last event_iter.next()
    calls,          \* what the last iteration issued: "scan", "render", "marker", "connect"
    failed,         \* the operation whose failure ended the program ("none")
    authCalls,      \* every invocation of authenticate: its arguments, what the command did
    downs,          \* history: k when the run so far is k Downs on one unchanged listing (-1 otherwise)
    typed           \* history: the characters typed at the password prompt

vars == <<build, status, state, selector_pos, wifi_list, pwd, ssid, raw, end_mode,
          screen, evt, calls, failed, authCalls, downs, typed>>

----------------------------------------------------------------------------
(* Bounds of the model *)

\* listings of 0..MaxLines networks are scanned (plus one that overflows a u8)
MaxLines == 2
\* longest password typed
MaxPwd == 2
\* longest run of Down presses the history variable `downs` follows
MaxDowns == 3

(* Program constants *)

\* largest u8: selector_pos, the line count and the bound are u8
U8Max == 255
\* get_ssids slices each line at byte 8
SsidOffset == 8

----------------------------------------------------------------------------
(* Text *)

Digits == <<"0", "1", "2", "3", "4", "5", "6", "7", "8", "9">>

Spaces(n) == [i \in 1..n |-> " "]

\* the name of the i-th network of a listing: N001, N002, ...
SsidOf(i) ==
    <<"N", Digits[((i \div 100) % 10) + 1], Digits[((i \div 10) % 10) + 1],
      Digits[(i % 10) + 1]>>

Header == <<"I", "N", "-", "U", "S", "E", " ", " ", "S", "S", "I", "D">>

\* a data line of nmcli: 8 columns of IN-USE, the SSID, further columns
DataLine(i) ==
    IF i = 1 THEN <<"*">> \o Spaces(7) \o SsidOf(i) \o <<" ", "x">>
    ELSE Spaces(8) \o SsidOf(i)

Listing(n) == <<Header>> \o [i \in 1..n |-> DataLine(i)]

\* a listing whose only data line is shorter than the SSID column
ShortListing == <<Header, <<"-", "-">>>>

\* one more network than a u8 can count
BigLen == U8Max + 2

WellFormed == {Listing(n) : n \in (0..MaxLines) \cup {BigLen}}

\* str::lines: the text between line feeds, without a final empty line and
\* without the carriage return that ends a line
RECURSIVE LinesFrom(_, _)
LinesFrom(text, i) ==
    IF i > Len(text) THEN <<>>
    ELSE LET nl == {j \in i..Len(text) : text[j] = "\n"}
             StripCr(l) == IF l # <<>> /\ l[Len(l)] = "\r" THEN SubSeq(l, 1, Len(l) - 1) ELSE l
         IN  IF nl = {} THEN <<SubSeq(text, i, Len(text))>>
             ELSE LET j == CHOOSE k \in nl : \A m \in nl : k <= m
                  IN  <<StripCr(SubSeq(text, i, j - 1))>> \o LinesFrom(text, j + 1)

Lines(text) == LinesFrom(text, 1)

\* an output whose names start at byte 6: a header and two networks
ExampleOutput ==
    <<"H", "E", "A", "D", "E", "R", "\n", "A", "A", ":", "B", "B", " ",
      "S", "S", "I", "D", "_", "O", "N", "E", " ", "m", "o", "r", "e", " ",
      "c", "o", "l", "s", "\n", "C", "C", ":", "D", "D", " ", "S", "S",
      "I", "D", "_", "T", "W", "O", "\n">>

ExampleListing == Lines(ExampleOutput)

\* listings with a character of two bytes, U+00E9: in the first, byte 8 of the
\* data line is the second byte of that character; in the second it is the
\* space before the name
SplitCharListing ==
    <<Header, <<"1", "2", "3", "4", "5", "6", "7", "C3", "A9", "N", "0", "0", "1">>>>
ShiftedListing == <<Header, <<"C3", "A9">> \o Spaces(7) \o SsidOf(1)>>

\* what a completed scan can print: a listing, a malformed listing
ScanOutputs ==
    WellFormed \cup {ShortListing, ExampleListing, SplitCharListing, ShiftedListing}

\* characters typed at the password prompt; both are commands while browsing
PwdChars == {"q", "r"}

----------------------------------------------------------------------------
(* Events (termion::event::Event) *)

KeyUp == <<"Up">>
KeyDown == <<"Down">>
KeyEsc == <<"Esc">>
Char(c) == <<"Char", c>>
\* an event no arm names: a function key, a mouse report, an unsupported sequence
Unsupported == <<"Unsupported">>
\* event_iter.next() gave None or Some(Err(_)), or nothing was read yet
NoEvent == <<"None">>

----------------------------------------------------------------------------
(* u8 arithmetic: -1 stands for the panic of an overflow check *)

Panic == -1

AddU8(b, x, y) ==
    IF x = Panic \/ y = Panic THEN Panic
    ELSE IF x + y <= U8Max THEN x + y
    ELSE IF b = "debug" THEN Panic ELSE (x + y) % (U8Max + 1)

SubU8(b, x, y) ==
    IF x = Panic \/ y = Panic THEN Panic
    ELSE IF x - y >= 0 THEN x - y
    ELSE IF b = "debug" THEN Panic ELSE (x - y) % (U8Max + 1)

\* Ord::clamp
Clamp(x, lo, hi) == IF x < lo THEN lo ELSE IF x > hi THEN hi ELSE x

\* Iterator::skip(1)
Skip1(s) == IF s = <<>> THEN <<>> ELSE Tail(s)

\* .fold(0, |acc, _| acc + 1) over n items, in u8: acc reaches n while n fits;
\* the addition that takes acc past 255 overflows, and in a release build the
\* count goes on from 0
FoldCount(b, n) ==
    IF n <= U8Max THEN n
    ELSE IF b = "debug" THEN Panic ELSE n % (U8Max + 1)

----------------------------------------------------------------------------
(* Listing helpers *)

MinOf(S) == CHOOSE i \in S : \A j \in S : i <= j

\* the bytes 0x80..0xBF, which continue a character of several bytes
ContinuationBytes ==
    {h \o d : h \in {"8", "9", "A", "B"},
              d \in {"0", "1", "2", "3", "4", "5", "6", "7", "8", "9",
                      "A", "B", "C", "D", "E", "F"}}

\* str::is_char_boundary: n is the length of l or the index of a byte that
\* starts a character (bytes are counted from 0)
is_char_boundary(l, n) ==
    \/ n = Len(l)
    \/ n < Len(l) /\ l[n + 1] \notin ContinuationBytes

\* l[n..]: the text from byte n; it panics past the end and inside a character
SliceFrom(l, n) ==
    IF is_char_boundary(l, n) THEN [ok |-> TRUE, val |-> SubSeq(l, n + 1, Len(l))]
    ELSE [ok |-> FALSE, val |-> <<>>]

\* .split(' ').next(): the text up to the first space
FirstField(rest) ==
    LET sp == {i \in 1..Len(rest) : rest[i] = " "}
    IN  IF sp = {} THEN rest ELSE SubSeq(rest, 1, MinOf(sp) - 1)

\* l[8..].split(' ').next(): the text from byte 8 up to the first space
SsidToken(l) == FirstField(SliceFrom(l, SsidOffset).val)

\* faulty variant: the header line is parsed like a data line
get_ssids_with_header(list) ==
    IF \E i \in 1..Len(list) : ~SliceFrom(list[i], SsidOffset).ok
    THEN [ok |-> FALSE, val |-> <<>>]
    ELSE [ok |-> TRUE, val |-> [i \in 1..Len(list) |-> SsidToken(list[i])]]

\* get_ssids: every line after the first is sliced at byte 8, which panics when
\* a line is shorter or has a character across byte 8; the Vec is built whole
\* before main indexes it
get_ssids(list) ==
    LET data == Skip1(list) IN
    IF \E i \in 1..Len(data) : ~SliceFrom(data[i], SsidOffset).ok
    THEN [ok |-> FALSE, val |-> <<>>]
    ELSE [ok |-> TRUE, val |-> [i \in 1..Len(data) |-> SsidToken(data[i])]]

\* the number of networks a listing shows
DataLen(list) == Len(Skip1(list))

----------------------------------------------------------------------------
(* match_evt: the response and the new selector_pos; resp "Panic" when an    *)
(* overflow check or an assertion aborts                                     *)

\* faulty variant: an event no arm names sends the selector back to the top
match_evt_unnamed_resets(b, e, list, pos) ==
    IF e = KeyUp THEN
        [resp |-> "Continue", pos |-> IF pos > 0 THEN pos - 1 ELSE 0]
    ELSE IF e = KeyDown THEN
        LET count == FoldCount(b, Len(Skip1(list)))
            bound == SubU8(b, count, 1)
            next == AddU8(b, pos, 1)
        IN  IF bound = Panic \/ next = Panic
            THEN [resp |-> "Panic", pos |-> pos]
            ELSE [resp |-> "Continue", pos |-> Clamp(next, 0, bound)]
    ELSE IF e = Char("r") THEN [resp |-> "Continue", pos |-> pos]
    ELSE IF e = Char("q") THEN [resp |-> "Quit", pos |-> pos]
    ELSE IF e = Char("\n") THEN [resp |-> "Select", pos |-> pos]
    ELSE [resp |-> "Continue", pos |-> 0]

\* faulty variant: the arm for 'q' is missing
match_evt_without_quit(b, e, list, pos) ==
    IF e = KeyUp THEN
        [resp |-> "Continue", pos |-> IF pos > 0 THEN pos - 1 ELSE 0]
    ELSE IF e = KeyDown THEN
        LET count == FoldCount(b, Len(Skip1(list)))
            bound == SubU8(b, count, 1)
            next == AddU8(b, pos, 1)
        IN  IF bound = Panic \/ next = Panic
            THEN [resp |-> "Panic", pos |-> pos]
            ELSE [resp |-> "Continue", pos |-> Clamp(next, 0, bound)]
    ELSE IF e = Char("r") THEN [resp |-> "Continue", pos |-> pos]
    ELSE IF e = Char("\n") THEN [resp |-> "Select", pos |-> pos]
    ELSE [resp |-> "Continue", pos |-> pos]

\* faulty variant: Up at the first entry wraps to the last one
match_evt_up_wraps(b, e, list, pos) ==
    IF e = KeyUp THEN
        [resp |-> "Continue",
         pos |-> IF pos > 0 THEN pos - 1
                 ELSE IF Len(Skip1(list)) \in 1..(U8Max + 1) THEN Len(Skip1(list)) - 1
                 ELSE 0]
    ELSE IF e = KeyDown THEN
        LET count == FoldCount(b, Len(Skip1(list)))
            bound == SubU8(b, count, 1)
            next == AddU8(b, pos, 1)
        IN  IF bound = Panic \/ next = Panic
            THEN [resp |-> "Panic", pos |-> pos]
            ELSE [resp |-> "Continue", pos |-> Clamp(next, 0, bound)]
    ELSE IF e = Char("r") THEN [resp |-> "Continue", pos |-> pos]
    ELSE IF e = Char("q") THEN [resp |-> "Quit", pos |-> pos]
    ELSE IF e = Char("\n") THEN [resp |-> "Select", pos |-> pos]
    ELSE [resp |-> "Continue", pos |-> pos]

match_evt(b, e, list, pos) ==
    IF e = KeyUp THEN
        [resp |-> "Continue", pos |-> IF pos > 0 THEN pos - 1 ELSE 0]
    ELSE IF e = KeyDown THEN
        LET count == FoldCount(b, Len(Skip1(list)))
            bound == SubU8(b, count, 1)
            next == AddU8(b, pos, 1)
        IN  IF bound = Panic \/ next = Panic
            THEN [resp |-> "Panic", pos |-> pos]
            ELSE [resp |-> "Continue", pos |-> Clamp(next, 0, bound)]
    ELSE IF e = Char("r") THEN [resp |-> "Continue", pos |-> pos]
    ELSE IF e = Char("q") THEN [resp |-> "Quit", pos |-> pos]
    ELSE IF e = Char("\n") THEN [resp |-> "Select", pos |-> pos]
    ELSE [resp |-> "Continue", pos |-> pos]

----------------------------------------------------------------------------
(* The terminal: a record [raw, screen, calls, failed].  Every               *)
(* operation takes f, the operation of this handler that fails ("none" when  *)
(* none does); an operation after a failed one is not run.                   *)

Term == [raw |-> raw, screen |-> screen, calls |-> <<>>, failed |-> "none"]

Ok(t) == t.failed = "none"

\* clear_and_write: suspend, write, flush, activate, each ended by `?`
clear_and_write(t, contents, f) ==
    LET t0 == [t EXCEPT !.calls = Append(@, "render")] IN
    IF f = "cw_suspend" THEN [t0 EXCEPT !.failed = f]
    ELSE IF f \in {"cw_write", "cw_flush"} THEN [t0 EXCEPT !.raw = FALSE, !.failed = f]
    ELSE IF f = "cw_activate"
         THEN [t0 EXCEPT !.raw = FALSE, !.screen = contents, !.failed = f]
    ELSE [t0 EXCEPT !.raw = TRUE, !.screen = contents]

CwFails == {"cw_suspend", "cw_write", "cw_flush", "cw_activate"}

\* wifi_list(): runs nmcli; res is what the command did
ScanResults ==
    {[kind |-> "output", lines |-> o] : o \in ScanOutputs}
    \cup {[kind |-> "launch", lines |-> <<>>], [kind |-> "utf8", lines |-> <<>>]}

\* faulty variant: the listing is fetched and the marker written, but the
\* screen is not rendered again
refresh_without_render(t, pos, res, f) ==
    LET t0 == [t EXCEPT !.calls = Append(@, "scan")] IN
    IF res.kind = "launch" THEN [term |-> [t0 EXCEPT !.failed = "scan_launch"], list |-> <<>>]
    ELSE IF res.kind = "utf8" THEN [term |-> [t0 EXCEPT !.failed = "panic_utf8"], list |-> <<>>]
    ELSE LET t2 == [t0 EXCEPT !.calls = Append(@, "marker")] IN
         IF f = "marker" THEN [term |-> [t2 EXCEPT !.failed = f], list |-> <<>>]
         ELSE [term |-> t2, list |-> res.lines]

\* refresh: wifi_list()?, clear_and_write(..)?, write!(marker at row pos + 2)?;
\* the result carries the listing refresh returns (list, when failed = "none")
refresh(t, pos, res, f) ==
    LET t0 == [t EXCEPT !.calls = Append(@, "scan")] IN
    IF res.kind = "launch" THEN [term |-> [t0 EXCEPT !.failed = "scan_launch"], list |-> <<>>]
    ELSE IF res.kind = "utf8" THEN [term |-> [t0 EXCEPT !.failed = "panic_utf8"], list |-> <<>>]
    ELSE LET t1 == clear_and_write(t0, res.lines, f) IN
         IF ~Ok(t1) THEN [term |-> t1, list |-> <<>>]
         ELSE LET t2 == [t1 EXCEPT !.calls = Append(@, "marker")] IN
              IF f = "marker" THEN [term |-> [t2 EXCEPT !.failed = f], list |-> <<>>]
              ELSE [term |-> t2, list |-> res.lines]

\* stdout.flush()? at the end of a loop iteration (main.rs:100)
loop_flush(t, f) == IF Ok(t) /\ f = "flush100" THEN [t EXCEPT !.failed = f] ELSE t

\* the start of a state-1 iteration: the prompt, then suspend_raw_mode
Prompt(s) == <<<<"CONNECTING">>, <<"SSID: ">> \o s, <<"Password: ">>>>

\* faulty variant: raw mode is not suspended after the prompt is written
password_prompt_stays_raw(t, s, f) ==
    IF ~Ok(t) THEN t
    ELSE LET t1 == clear_and_write(t, Prompt(s), f) IN
         IF ~Ok(t1) THEN t1
         ELSE IF f = "suspend73" THEN [t1 EXCEPT !.failed = f]
         ELSE t1

password_prompt(t, s, f) ==
    IF ~Ok(t) THEN t
    ELSE LET t1 == clear_and_write(t, Prompt(s), f) IN
         IF ~Ok(t1) THEN t1
         ELSE IF f = "suspend73" THEN [t1 EXCEPT !.failed = f]
         ELSE [t1 EXCEPT !.raw = FALSE]

StatusOf(t) ==
    IF Ok(t) THEN "running"
    ELSE IF t.failed \in {"panic_utf8", "panic_overflow", "panic_index", "panic_slice"}
         THEN "panic" ELSE "error"

\* what the tcsetattr of RawTerminal's Drop can do: set the attributes, or fail
\* (the failure suspend_raw_mode can meet as well); its result is ignored
DropResults == {"restored", "drop_failed"}

\* the end of main: `stdout` (main.rs:43) goes out of scope, on return and on
\* unwinding; the Drop of RawTerminal issues one tcsetattr with the terminal
\* attributes saved by into_raw_mode, those of cooked mode. When that call
\* fails the terminal stays in the mode main left it in; the end of main is
\* the same either way. No RawTerminal exists when into_raw_mode itself failed.
drop_stdout(t, d) ==
    IF t.failed = "into_raw" \/ d = "drop_failed" THEN t
    ELSE [t EXCEPT !.raw = FALSE]

\* the terminal part of the next state, and how main goes on: `after` when no
\* operation failed
SetTerm(t, after) ==
    /\ IF Ok(t) /\ after = "running"
       THEN raw' = t.raw /\ end_mode' = "none"
       ELSE /\ \E d \in DropResults : raw' = drop_stdout(t, d).raw
            /\ end_mode' = IF t.raw THEN "raw" ELSE "cooked"
    /\ screen' = t.screen
    /\ calls' = t.calls
    /\ failed' = t.failed
    /\ status' = IF Ok(t) THEN after ELSE StatusOf(t)

\* main's locals in the next state: assigned while main runs on, dropped when
\* main returns or unwinds (state keeps the phase main ended in)
SetLocals(t, after, st, pos, list, s, p) ==
    /\ state' = st
    /\ IF Ok(t) /\ after = "running"
       THEN /\ selector_pos' = pos
            /\ wifi_list' = list
            /\ ssid' = s
            /\ pwd' = p
       ELSE /\ selector_pos' = 0
            /\ wifi_list' = <<>>
            /\ ssid' = <<>>
            /\ pwd' = <<>>

Step(t, after, st, pos, list, s, p) ==
    /\ SetTerm(t, after)
    /\ SetLocals(t, after, st, pos, list, s, p)

----------------------------------------------------------------------------
(* authenticate: runs nmcli device wifi connect; res is what the command did *)

AuthResults ==
    {[kind |-> "exit0", text |-> <<<<"stdout">>>>],
     [kind |-> "exitN", text |-> <<<<"stderr">>>>],
     [kind |-> "launch", text |-> <<<<"os error">>>>],
     [kind |-> "utf8", text |-> <<>>]}

\* faulty variant: a command that could not be launched is reported as a
\* command that failed
authenticate_launch_as_command(s, p, res) ==
    IF res.kind = "utf8" THEN [tag |-> "Panic", msg |-> <<>>]
    ELSE IF res.kind = "exit0" THEN [tag |-> "Ok", msg |-> res.text]
    ELSE [tag |-> "Command", msg |-> res.text]

\* main.rs:192-206: Program when the command cannot be launched, else Ok with
\* its stdout on success and Command with its stderr otherwise; from_utf8(..)
\* .unwrap() aborts on output that is not UTF-8
authenticate(s, p, res) ==
    IF res.kind = "launch" THEN [tag |-> "Program", msg |-> res.text]
    ELSE IF res.kind = "utf8" THEN [tag |-> "Panic", msg |-> <<>>]
    ELSE IF res.kind = "exit0" THEN [tag |-> "Ok", msg |-> res.text]
    ELSE [tag |-> "Command", msg |-> res.text]

\* the first lines of the Display of AuthError (main.rs:27, 32) and the lines
\* main writes before the output of a command that succeeded (main.rs:90)
ProgramErrorText ==
    <<"The program encountered the following generic error of type Box<dyn std::error::Error>:">>
CommandErrorText ==
    <<"The output authentication command (type std::process::Output) threw the following error on execution:">>
ConnectedText(s) == <<<<"You are connected to ">> \o s, <<"Command Output:">>>>

\* what state 2 writes for a result of authenticate (main.rs:88-93, 22-37)
OutcomeText(s, a) ==
    IF a.tag = "Ok"
    THEN ConnectedText(s) \o a.msg
    ELSE IF a.tag = "Program"
    THEN <<ProgramErrorText>> \o a.msg
    ELSE <<CommandErrorText>> \o a.msg

----------------------------------------------------------------------------
(* main *)

Builds == {"debug", "release"}

\* the program is started from a shell, which hands it the terminal in cooked
\* mode; these are the attributes into_raw_mode saves and suspend_raw_mode and
\* the Drop of RawTerminal set again
Init ==
    /\ build \in Builds
    /\ status = "start"
    /\ state = 0
    /\ selector_pos = 0
    /\ wifi_list = <<>>
    /\ pwd = <<>>
    /\ ssid = <<>>
    /\ raw = FALSE
    /\ end_mode = "none"
    /\ screen = <<>>
    /\ evt = NoEvent
    /\ calls = <<>>
    /\ failed = "none"
    /\ authCalls = <<>>
    /\ downs = -1
    /\ typed = <<>>

LoopFails == {"none", "flush100"}
PromptFails == {"none", "flush100", "suspend73"} \cup CwFails

AnyOutput == [kind |-> "output", lines |-> Listing(0)]
NoScan == [kind |-> "launch", lines |-> <<>>]

\* what can happen to a refresh and the flush after it: the scan and the first
\* operation to fail.  A scan that did not complete lets nothing else run, and a
\* failure before the text is out makes the text irrelevant.
RefreshEnv(more) ==
    {<<res, "none">> : res \in ScanResults}
    \cup {<<AnyOutput, f>> : f \in {"cw_suspend", "cw_write", "cw_flush"}}
    \cup {<<res, f>> : res \in {r \in ScanResults : r.kind = "output"},
                       f \in {"cw_activate", "marker"} \cup more}

\* main.rs:42-52: into_raw_mode()?, the first refresh(..)?
Start ==
    /\ status = "start"
    /\ \E env \in RefreshEnv({}) \cup {<<NoScan, "into_raw">>} :
        LET res == env[1]
            f == env[2]
            rf == IF f = "into_raw"
                  THEN [term |-> [Term EXCEPT !.failed = f], list |-> <<>>]
                  ELSE refresh([Term EXCEPT !.raw = TRUE], 0, res, f)
        IN  /\ Step(rf.term, "running", 0, 0, rf.list, <<>>, <<>>)
            /\ downs' = IF Ok(rf.term) THEN 0 ELSE -1
    /\ UNCHANGED <<build, evt, authCalls, typed>>

\* main.rs:55-67 and 100: one iteration of state 0 that reads event e
Browsing(e, res, f) ==
    /\ status = "running"
    /\ state = 0
    /\ evt' = e
    /\ LET r == match_evt(build, e, wifi_list, selector_pos) IN
       IF e = NoEvent THEN
            /\ Step(loop_flush(Term, f), "running", 0, selector_pos, wifi_list, ssid, pwd)
            /\ UNCHANGED downs
       ELSE IF r.resp = "Panic" THEN
            /\ Step([Term EXCEPT !.failed = "panic_overflow"], "running",
                    0, selector_pos, wifi_list, ssid, pwd)
            /\ UNCHANGED downs
       ELSE IF r.resp = "Quit" THEN
            /\ Step(Term, "exited", 0, selector_pos, wifi_list, ssid, pwd)
            /\ UNCHANGED downs
       ELSE IF r.resp = "Continue" THEN
            LET rf == refresh(Term, r.pos, res, f) IN
            /\ Step(loop_flush(rf.term, f), "running", 0, r.pos, rf.list, ssid, pwd)
            /\ downs' = IF /\ e = KeyDown /\ Ok(rf.term) /\ rf.list = wifi_list
                           /\ downs >= 0 /\ downs < MaxDowns
                        THEN downs + 1 ELSE -1
       ELSE \* Select: state = 1, then get_ssids(..)[selector_pos]
            LET g == get_ssids(wifi_list) IN
            /\ IF ~g.ok THEN
                    Step([Term EXCEPT !.failed = "panic_slice"], "running",
                         1, selector_pos, wifi_list, ssid, pwd)
               ELSE IF selector_pos >= Len(g.val) THEN
                    Step([Term EXCEPT !.failed = "panic_index"], "running",
                         1, selector_pos, wifi_list, ssid, pwd)
               ELSE LET s == g.val[selector_pos + 1] IN
                    Step(password_prompt(loop_flush(Term, f), s, f), "running",
                         1, selector_pos, wifi_list, s, pwd)
            /\ UNCHANGED downs
    /\ UNCHANGED <<build, authCalls, typed>>

BrowseUp == \E env \in RefreshEnv({"flush100"}) : Browsing(KeyUp, env[1], env[2])
BrowseDown == \E env \in RefreshEnv({"flush100"}) : Browsing(KeyDown, env[1], env[2])
BrowseRefresh == \E env \in RefreshEnv({"flush100"}) : Browsing(Char("r"), env[1], env[2])
BrowseUnrecognized ==
    \E e \in {KeyEsc, Char("x")}, env \in RefreshEnv({"flush100"}) : Browsing(e, env[1], env[2])
BrowseQuit == Browsing(Char("q"), NoScan, "none")
BrowseSelect == \E f \in PromptFails : Browsing(Char("\n"), NoScan, f)
BrowseNoEvent == \E f \in LoopFails : Browsing(NoEvent, NoScan, f)

\* faulty variant: Esc is taken for any other key
match_key_without_esc(e, p) ==
    IF e = Char("\n") THEN [next |-> "Connect", pwd |-> p]
    ELSE IF e[1] = "Char" THEN [next |-> "Stay", pwd |-> Append(p, e[2])]
    ELSE [next |-> "Stay", pwd |-> p]

\* faulty variant: Enter is taken for a character of the password
match_key_enter_typed(e, p) ==
    IF e = KeyEsc THEN [next |-> "Quit", pwd |-> p]
    ELSE IF e[1] = "Char" THEN [next |-> "Stay", pwd |-> Append(p, e[2])]
    ELSE [next |-> "Stay", pwd |-> p]

\* main.rs:75-82: what state 1 does with the event it read
match_key(e, p) ==
    IF e = KeyEsc THEN [next |-> "Quit", pwd |-> p]
    ELSE IF e = Char("\n") THEN [next |-> "Connect", pwd |-> p]
    ELSE IF e[1] = "Char" THEN [next |-> "Stay", pwd |-> Append(p, e[2])]
    ELSE [next |-> "Stay", pwd |-> p]

\* main.rs:68-84 and 100: the rest of a state-1 iteration once event e is read,
\* and, when the loop goes on in state 1, the start of the next one
Password(e, f) ==
    /\ status = "running"
    /\ state = 1
    /\ evt' = e
    /\ LET k == IF e = NoEvent THEN [next |-> "Stay", pwd |-> pwd] ELSE match_key(e, pwd) IN
       /\ Len(k.pwd) <= MaxPwd
       /\ typed' = IF e # NoEvent /\ e[1] = "Char" /\ e # Char("\n")
                   THEN Append(typed, e[2]) ELSE typed
       /\ IF k.next = "Quit" THEN
               Step(Term, "exited", 1, selector_pos, wifi_list, ssid, k.pwd)
          ELSE IF k.next = "Connect" THEN
               Step(loop_flush(Term, f), "running", 2, selector_pos, wifi_list, ssid, k.pwd)
          ELSE Step(password_prompt(loop_flush(Term, f), ssid, f), "running",
                    1, selector_pos, wifi_list, ssid, k.pwd)
    /\ UNCHANGED <<build, authCalls, downs>>

PasswordChar == \E c \in PwdChars, f \in PromptFails : Password(Char(c), f)
PasswordEnter == \E f \in LoopFails : Password(Char("\n"), f)
PasswordEsc == Password(KeyEsc, "none")
PasswordUnrecognized == \E e \in {KeyUp, Unsupported}, f \in PromptFails : Password(e, f)
PasswordNoEvent == \E f \in PromptFails : Password(NoEvent, f)

\* faulty variant: after a connect that failed the password is asked again
Connect_with_retry ==
    /\ status = "running"
    /\ state = 2
    /\ \E res \in AuthResults, f \in CwFails \cup {"none"} :
        LET a == authenticate(ssid, pwd, res)
            t0 == [Term EXCEPT !.calls = <<"connect">>]
            t1 == IF a.tag = "Panic" THEN [t0 EXCEPT !.failed = "panic_utf8"]
                  ELSE clear_and_write(t0, OutcomeText(ssid, a), f)
        IN  /\ authCalls' = Append(authCalls, [ssid |-> ssid, pwd |-> pwd, res |-> res])
            /\ IF a.tag \in {"Command", "Program"}
               THEN Step(password_prompt(t1, ssid, f), "running", 1,
                         selector_pos, wifi_list, ssid, <<>>)
               ELSE Step(t1, "exited", 2, selector_pos, wifi_list, ssid, pwd)
    /\ UNCHANGED <<build, evt, downs, typed>>

\* main.rs:85-96: the state-2 iteration; it reads no event
Connect ==
    /\ status = "running"
    /\ state = 2
    /\ \E res \in AuthResults, f \in CwFails \cup {"none"} :
        LET a == authenticate(ssid, pwd, res)
            t0 == [Term EXCEPT !.calls = <<"connect">>]
            t1 == IF a.tag = "Panic" THEN [t0 EXCEPT !.failed = "panic_utf8"]
                  ELSE clear_and_write(t0, OutcomeText(ssid, a), f)
        IN  /\ authCalls' = Append(authCalls, [ssid |-> ssid, pwd |-> pwd, res |-> res])
            /\ Step(t1, "exited", 2, selector_pos, wifi_list, ssid, pwd)
    /\ UNCHANGED <<build, evt, downs, typed>>

Next ==
    \/ Start
    \/ BrowseUp
    \/ BrowseDown
    \/ BrowseRefresh
    \/ BrowseUnrecognized
    \/ BrowseQuit
    \/ BrowseSelect
    \/ BrowseNoEvent
    \/ PasswordChar
    \/ PasswordEnter
    \/ PasswordEsc
    \/ PasswordUnrecognized
    \/ PasswordNoEvent
    \/ Connect

Spec == Init /\ [][Next]_vars

\* main does not wait in state 2: authenticate is called as soon as the loop
\* comes round, and the call returns
FairSpec == Spec /\ WF_vars(Connect)

----------------------------------------------------------------------------
(* Properties *)

Min(x, y) == IF x < y THEN x ELSE y

Ended == status \in {"exited", "error", "panic"}

\* a step of state 0 that read event e
BrowsingRead(e) == status = "running" /\ state = 0 /\ evt' = e

\* a step of state 1 that read event e
PasswordRead(e) == status = "running" /\ state = 1 /\ evt' = e

FullRefresh == <<"scan", "render", "marker">>

\* the aborts of match_evt and of the selection, as opposed to those of a scan
HandlerPanics == {"panic_overflow", "panic_index", "panic_slice"}

\* C1: while main runs with a non-empty listing, 0 <= selector_pos < number of
\* networks of that listing.
C1_IndexInRange ==
    (status = "running" /\ DataLen(wifi_list) > 0) => selector_pos < DataLen(wifi_list)

\* C2: on a listing without data lines, Down in Browsing leaves selector_pos
\* as it is and does not abort, and Enter neither aborts nor leaves Browsing.
C2_EmptyListNoOp ==
    [][(DataLen(wifi_list) = 0) =>
          /\ BrowsingRead(KeyDown) =>
                /\ failed' \notin HandlerPanics
                /\ status' = "running" => selector_pos' = selector_pos
          /\ BrowsingRead(Char("\n")) =>
                /\ failed' \notin HandlerPanics
                /\ state' = 0
                /\ authCalls' = <<>>]_vars

\* C3: when the write or the flush inside clear_and_write fails, raw mode is
\* active again by the time the error has propagated to main and ended it
\* (end_mode: before `stdout` is dropped).
C3_RawResumedOnError == failed \in {"cw_write", "cw_flush"} => end_mode = "raw"

\* C4: when main has returned (Ok or Err) after raw mode was entered, its calls
\* have not left raw mode suspended: every suspend was followed by an activate.
C4_NeverLeftSuspended ==
    (status \in {"exited", "error"} /\ failed # "into_raw") => end_mode = "raw"

\* C5 as stated: an unrecognized event (Esc or another character in Browsing;
\* a non-character, non-Esc event in EnteringPassword) changes nothing and
\* issues neither a scan nor a render.
C5_UnrecognizedSilent ==
    [][((\E e \in {KeyEsc, Char("x")} : BrowsingRead(e))
         \/ (\E e \in {KeyUp, Unsupported} : PasswordRead(e)))
        /\ status' = "running"
        => /\ UNCHANGED <<state, selector_pos, wifi_list, ssid, pwd>>
           /\ calls' = <<>>]_vars

\* C5 amended: an unrecognized event that main survives leaves phase,
\* selector_pos, ssid and password as they are; in Browsing it runs one scan
\* and one full render, as 'r' does, and the listing becomes that scan's; in
\* EnteringPassword the listing stays and the prompt is rendered again.
C5_UnrecognizedKeepsSelection ==
    [][/\ ((\E e \in {KeyEsc, Char("x")} : BrowsingRead(e)) /\ status' = "running")
          => /\ UNCHANGED <<state, selector_pos, ssid, pwd>>
             /\ calls' = FullRefresh
             /\ screen' = wifi_list'
       /\ ((\E e \in {KeyUp, Unsupported} : PasswordRead(e)) /\ status' = "running")
          => /\ UNCHANGED <<state, selector_pos, wifi_list, ssid, pwd>>
             /\ calls' = <<"render">>
             /\ screen' = Prompt(ssid)]_vars

C5_Witness ==
    /\ status = "running" /\ state = 0 /\ evt = KeyEsc
    /\ selector_pos = 1 /\ DataLen(wifi_list) = 2 /\ calls = FullRefresh

\* C6: whenever main comes to wait for an event in Browsing, at the start and
\* after every event read there, exactly one scan and then one full render have
\* just been issued, and the screen shows the listing main holds, that scan's.
C6_FreshScanAndRender ==
    [][(status' = "running" /\ state' = 0)
        => /\ screen' = wifi_list'
           /\ raw'
           /\ (status = "start" \/ evt' # NoEvent) => calls' = FullRefresh
           /\ (status # "start" /\ evt' = NoEvent)
                => (calls' = <<>> /\ wifi_list' = wifi_list)]_vars

C6_Witness ==
    /\ status = "running" /\ state = 0 /\ evt = Char("r")
    /\ calls = FullRefresh /\ DataLen(wifi_list) = 2 /\ screen = wifi_list

\* C7: after k Downs from index 0 on an unchanged well-formed listing of
\* L >= 1 networks, Enter, the password and Enter, state 2 holds the name of
\* entry min(k, L-1) and the characters typed; main ends in state 2 having
\* called authenticate once.
C7_EndToEnd ==
    /\ (status = "running" /\ state = 2 /\ downs >= 0
          /\ wifi_list \in WellFormed /\ DataLen(wifi_list) >= 1)
       => /\ ssid = SsidOf(Min(downs, DataLen(wifi_list) - 1) + 1)
          /\ pwd = typed
          /\ authCalls = <<>>
    /\ (status = "exited" /\ state = 2) => Len(authCalls) = 1

\* C8: 'q' in Browsing ends main with Ok, no authenticate call was or is made,
\* and nothing happens after main has ended.
C8_QuitNoConnect ==
    /\ []((state = 0 /\ evt = Char("q")) => (status = "exited" /\ authCalls = <<>>))
    /\ [][BrowsingRead(Char("q")) => status' = "exited"]_vars
    /\ [][~Ended]_vars

C8_Witness ==
    status = "exited" /\ state = 0 /\ evt = Char("q") /\ downs = 2 /\ authCalls = <<>>

\* C9: Esc in EnteringPassword ends main with Ok and no authenticate call is
\* made, whatever was typed before.
C9_EscNoConnect ==
    /\ []((state = 1 /\ evt = KeyEsc) => (status = "exited" /\ authCalls = <<>>))
    /\ [][PasswordRead(KeyEsc) => status' = "exited"]_vars
    /\ [][~Ended]_vars

C9_Witness ==
    /\ status = "exited" /\ state = 1 /\ evt = KeyEsc
    /\ Len(typed) = MaxPwd /\ authCalls = <<>>

\* C10: on a listing of L >= 1 networks Down does not abort and moves
\* selector_pos to min(selector_pos + 1, L - 1).
C10_DownClamps ==
    [][(BrowsingRead(KeyDown) /\ DataLen(wifi_list) >= 1)
        => /\ failed' \notin HandlerPanics
           /\ status' = "running"
                => selector_pos' = Min(selector_pos + 1, DataLen(wifi_list) - 1)]_vars

\* C11: on a non-empty listing, from any index, Up does not abort and moves
\* selector_pos to selector_pos - 1, or leaves it at 0 when it is 0: the index
\* never goes below 0, never wraps to the last entry, and every Up brings it
\* nearer to 0 until it is 0.
C11_UpFloorsAtZero ==
    [][(BrowsingRead(KeyUp) /\ DataLen(wifi_list) >= 1)
        => /\ failed' \notin HandlerPanics
           /\ status' = "running"
                => /\ selector_pos' = (IF selector_pos > 0 THEN selector_pos - 1 ELSE 0)
                   /\ selector_pos' >= 0
                   /\ selector_pos' < selector_pos \/ selector_pos' = 0]_vars

\* Up has taken the index from 2 to 1 and a listing of two networks is shown
C11_Witness ==
    /\ status = "running" /\ state = 0 /\ evt = KeyUp
    /\ DataLen(wifi_list) = 2 /\ selector_pos = 1

\* C12: authenticate's result follows the way the command ended: Ok carrying
\* its stdout on exit status 0, Command carrying its stderr on another status,
\* Program when it could not be launched.  In each of the three cases, with
\* output that is text and a terminal that takes the write, main ends with Ok
\* after one call of authenticate and the screen shows that result's message.
C12_ConnectOutcome ==
    /\ (state = 2 /\ authCalls # <<>>) => (Ended /\ Len(authCalls) = 1)
    /\ (state = 2 /\ authCalls # <<>> /\ failed = "none") =>
          LET c == authCalls[1]
              a == authenticate(c.ssid, c.pwd, c.res)
          IN  /\ status = "exited"
              /\ c.res.kind \in {"exit0", "exitN", "launch"}
              /\ a.msg = c.res.text
              /\ c.res.kind = "exit0" =>
                    /\ a.tag = "Ok"
                    /\ screen = ConnectedText(c.ssid) \o c.res.text
              /\ c.res.kind = "exitN" =>
                    /\ a.tag = "Command"
                    /\ screen = <<CommandErrorText>> \o c.res.text
              /\ c.res.kind = "launch" =>
                    /\ a.tag = "Program"
                    /\ screen = <<ProgramErrorText>> \o c.res.text
    /\ (state = 2 /\ authCalls # <<>> /\ failed # "none") =>
          \/ failed \in CwFails
          \/ failed = "panic_utf8" /\ authCalls[1].res.kind = "utf8"

\* main has ended showing the stderr of a connect command that failed
C12_Witness ==
    /\ status = "exited" /\ state = 2 /\ Len(authCalls) = 1
    /\ authCalls[1].res.kind = "exitN" /\ authCalls[1].ssid = SsidOf(2)
    /\ screen[Len(screen)] = <<"stderr">>

\* the operations on the terminal and the launches of nmcli that can fail; a
\* scan or a connect whose output is not text is counted with them
IoFailures ==
    {"into_raw", "scan_launch", "marker", "flush100", "suspend73", "panic_utf8"} \cup CwFails

\* C13: main ends with Ok on 'q' in Browsing, on Esc in EnteringPassword and
\* after showing a connect outcome; it ends with an error or an abort only when
\* an operation on the terminal or a launch has failed, never through a key
\* event or the text of a completed scan.
C13_ErrorExitOnlyOnIo ==
    /\ (state = 0 /\ evt = Char("q")) => status = "exited"
    /\ (state = 1 /\ evt = KeyEsc) => status = "exited"
    /\ (state = 2 /\ authCalls # <<>> /\ failed = "none") => status = "exited"
    /\ status \in {"error", "panic"} => failed \in IoFailures

\* t is the text of line l from byte SsidOffset up to the first space after
\* it, or to the end of l
IsTokenAtOffset(t, l) ==
    /\ Len(t) <= Len(l) - SsidOffset
    /\ \A m \in 1..Len(t) : t[m] = l[SsidOffset + m] /\ t[m] # " "
    /\ Len(t) = Len(l) - SsidOffset \/ l[SsidOffset + Len(t) + 1] = " "

\* every line after the header has SsidOffset bytes, and more only when the
\* byte after those does not continue a character
AllSliceable(list) ==
    \A i \in 2..Len(list) :
        /\ Len(list[i]) >= SsidOffset
        /\ Len(list[i]) > SsidOffset => list[i][SsidOffset + 1] \notin ContinuationBytes

\* names is what get_ssids owes for a listing: nothing for the header and, for
\* every later line, in order, the token at byte SsidOffset
IsTokenPerLine(names, list) ==
    /\ Len(names) = Len(list) - 1
    /\ \A i \in 1..Len(names) : IsTokenAtOffset(names[i], list[i + 1])

\* Enter in Browsing runs get_ssids on the listing main holds: it aborts in
\* the slice exactly when some line cannot be sliced at byte SsidOffset, and
\* when main goes on the names are one token per line and the name main
\* keeps in state 1 and 2 is the one at selector_pos
OneTokenPerLine ==
    /\ []((status = "running" /\ state \in {1, 2}) =>
            /\ AllSliceable(wifi_list)
            /\ get_ssids(wifi_list).ok
            /\ IsTokenPerLine(get_ssids(wifi_list).val, wifi_list)
            /\ ssid = get_ssids(wifi_list).val[selector_pos + 1])
    /\ [][(BrowsingRead(Char("\n")) /\ failed' = "panic_slice")
            => ~AllSliceable(wifi_list) /\ ~get_ssids(wifi_list).ok]_vars
    /\ []((status = "running" /\ state = 1 /\ wifi_list = ShiftedListing) => ssid = <<>>)

\* C14 as stated: get_ssids drops the header line and yields one name per
\* later line, in order, the token at the fixed offset up to the next space;
\* for "HEADER\nAA:BB SSID_ONE more cols\nCC:DD SSID_TWO\n" it yields
\* SSID_ONE, SSID_TWO.
C14_ExampleFullNames ==
    /\ OneTokenPerLine
    /\ []((status = "running" /\ wifi_list = ExampleListing) =>
            get_ssids(wifi_list).val = <<<<"S", "S", "I", "D", "_", "O", "N", "E">>,
                                         <<"S", "S", "I", "D", "_", "T", "W", "O">>>>)

\* C14 amended: get_ssids drops the header line and, when every later line
\* has at least 8 bytes and a character boundary at byte 8, yields one name
\* per later line, in order, the text from byte 8 up to the next space or the
\* end of the line (empty when byte 8 is a space); it aborts otherwise; for
\* "HEADER\nAA:BB SSID_ONE more cols\nCC:DD SSID_TWO\n" it yields ID_ONE,
\* ID_TWO.
C14_TokenAtByteEight ==
    /\ OneTokenPerLine
    /\ []((status = "running" /\ wifi_list = ExampleListing) =>
            get_ssids(wifi_list).val = <<<<"I", "D", "_", "O", "N", "E">>,
                                         <<"I", "D", "_", "T", "W", "O">>>>)

\* the second network of the example output has been selected
C14_Witness ==
    /\ status = "running" /\ state = 1 /\ wifi_list = ExampleListing
    /\ selector_pos = 1 /\ ssid = <<"I", "D", "_", "T", "W", "O">>

\* a line after the header is shorter than the offset of the name
HasShortLine(list) == \E i \in 2..Len(list) : Len(list[i]) < SsidOffset

\* C15: when the listing has a data line shorter than the offset, Enter in
\* Browsing neither aborts nor goes on to the password prompt as if the line
\* were not there, whatever selector_pos is: the selection ends as an error.
C15_ShortLineIsError ==
    [][(BrowsingRead(Char("\n")) /\ HasShortLine(wifi_list))
        => /\ status' # "panic"
           /\ failed' # "panic_slice"
           /\ ~(status' = "running" /\ state' = 1)]_vars

\* C16: the phase only stays or moves on by one, 0 to 1 to 2, until main ends;
\* the iteration of state 2 always ends main; authenticate is called at most
\* once in a run, also when the connect failed.
C16_PhasesOneWay ==
    /\ [][/\ state = 0 => state' \in {0, 1}
          /\ state = 1 => state' \in {1, 2}
          /\ state = 2 => state' = 2
          /\ (status = "running" /\ state = 2) => status' # "running"
          /\ Len(authCalls') <= 1]_vars
    /\ [](Len(authCalls) <= 1)
    /\ [](authCalls # <<>> => Ended)

\* main has ended after a connect that could not be launched
C16_Witness ==
    /\ status = "exited" /\ state = 2 /\ Len(authCalls) = 1
    /\ authCalls[1].res.kind = "launch" /\ screen[1] = ProgramErrorText

\* C17: Enter in EnteringPassword takes main to state 2 (unless the flush that
\* ends the iteration fails); in state 2 main needs no event: the connect step
\* is enabled, reads nothing, calls authenticate once, shows the outcome when
\* the output is text and the terminal takes it, and ends main; so after Enter
\* main eventually ends, whatever the command's result.
C17_EnterConnectsAndEnds ==
    /\ [][PasswordRead(Char("\n"))
            => \/ status' = "running" /\ state' = 2 /\ authCalls' = <<>>
               \/ status' = "error" /\ failed' = "flush100"]_vars
    /\ []((status = "running" /\ state = 2) => ENABLED Connect)
    /\ [][(status = "running" /\ state = 2)
            => /\ UNCHANGED <<evt, typed>>
               /\ Len(authCalls') = 1
               /\ Ended'
               /\ failed' = "none" =>
                     /\ status' = "exited"
                     /\ screen' = OutcomeText(ssid, authenticate(ssid, pwd, authCalls'[1].res))]_vars
    /\ (state = 2) ~> Ended

\* Enter was the last event read and main has ended after a successful connect
C17_Witness ==
    /\ status = "exited" /\ state = 2 /\ evt = Char("\n") /\ Len(authCalls) = 1
    /\ authCalls[1].res.kind = "exit0" /\ authCalls[1].pwd = typed /\ Len(typed) = MaxPwd

\* C18: whenever main waits for an event in state 0 raw mode is active, and
\* whenever it waits for one in state 1 the screen shows the prompt with the
\* name selected at selector_pos and raw mode is suspended.
C18_ModeMatchesPhase ==
    /\ (status = "running" /\ state = 0) => raw
    /\ (status = "running" /\ state = 1) =>
          /\ ~raw
          /\ screen = Prompt(ssid)
          /\ ssid = get_ssids(wifi_list).val[selector_pos + 1]

\* main waits for the next character of the password of the second network
C18_Witness ==
    /\ status = "running" /\ state = 1 /\ ~raw /\ evt = Char("q")
    /\ typed = <<"q">> /\ screen = Prompt(SsidOf(2))

\* C19: when event_iter.next() gives None or an error in state 0 or 1, main
\* does not loop for ever: the iteration that read nothing ends main, or at
\* least leaves main somewhere else than where it was when it read.
C19_NoEventNoLoop ==
    [][(BrowsingRead(NoEvent) \/ PasswordRead(NoEvent))
        => \/ status' # "running"
           \/ <<state, selector_pos, wifi_list, ssid, pwd>>'
                 # <<state, selector_pos, wifi_list, ssid, pwd>>]_vars

\* C20: in the Down arm, on a listing of L >= 1 networks at any index, the u8
\* count of the data lines is L, the bound is L - 1 and the index plus one is
\* computed without overflow, underflow or abort.
C20_DownArithmeticExact ==
    [][(BrowsingRead(KeyDown) /\ DataLen(wifi_list) >= 1)
        => LET count == FoldCount(build, Len(Skip1(wifi_list)))
               bound == SubU8(build, count, 1)
               next == AddU8(build, selector_pos, 1)
           IN  /\ count = DataLen(wifi_list)
               /\ bound = DataLen(wifi_list) - 1
               /\ next = selector_pos + 1
               /\ failed' # "panic_overflow"]_vars

====
